---- MODULE Spec2Model ----
(***************************************************************************)
(* The realtime synchronisation hooks of the mycelial dashboard:           *)
(*   useP2P          (dashboard/src/hooks/useP2P.ts)                        *)
(*   useOrchestrator (dashboard/src/hooks/useOrchestrator.ts)               *)
(* One hook instance is modelled; which of the two it is, is fixed by the  *)
(* variable hook in the initial state.  Every handler of the hook is a     *)
(* function from the hook's mutable state (the record Hook) to its next    *)
(* state; an action commits the result of one handler run.                 *)
(***************************************************************************)
EXTENDS Integers, Sequences, FiniteSets, TLC

(* ------------------------------ bounds -------------------------------- *)
\* WebSocket objects of the hook that are alive at the same time.
MaxSockets == 2
\* Timers pending at the same time.
MaxTimers == 2
\* Frames the caller sends on one socket, and local echoes kept in the model.
MaxSends == 1
\* REST calls of one kind, and fetchOrchestratorData() calls, in flight at
\* the same time.
MaxInflight == 1

(* ------------------------- program constants -------------------------- *)
\* options.maxReconnectAttempts: its default
MaxReconnectAttempts == 5
\* options.reconnectInterval: its default
ReconnectInterval == 3000
\* the delay of resetConnection's setTimeout
ResetDelay == 100
\* the close code disconnect() passes, which onclose takes for a clean close
CleanCode == 1000
\* a close code sent by a server that is going away
GoingAwayCode == 1001
\* the close code of a connection that failed or was dropped
AbnormalCode == 1006

Hooks == {"p2p", "orch"}
SockIds == 1..MaxSockets
TimerIds == 1..MaxTimers
CloseCodes == {CleanCode, GoingAwayCode, AbnormalCode}

\* The WebSocket objects of the hook that have not delivered their close
\* event are kept in the order they were created, and a socket is named by
\* its place in that order; the pending timers likewise, and the handle of a
\* pending timer is its place.
\* reconnectTimerRef.current: undefined, the handle of a timer that has
\* already fired (clearTimeout of it does nothing), or the handle of a
\* pending timer.
Undefined == 0
StaleHandle == -1

\* seq without its i-th element.
RemoveAt(seq, i) == SubSeq(seq, 1, i - 1) \o SubSeq(seq, i + 1, Len(seq))

\* The name, after the i-th element is removed, of what was named n.
Shift(n, i) == IF n > i THEN n - 1 ELSE n

\* The JavaScript values null and undefined, and the values that are falsy.
Null == "null"
Undef == "undefined"
Falsy(v) == v \in {Null, Undef, ""}
\* a || b
Or(a, b) == IF Falsy(a) THEN b ELSE a

\* A Map: a function from its keys.  set and delete of Map:
EmptyMap == <<>>
\* A set that keeps the entry the map already holds under the key.
MapSet_keepsFirst(m, k, v) ==
  [x \in (DOMAIN m) \cup {k} |-> IF x \in DOMAIN m THEN m[x] ELSE v]
MapSet(m, k, v) == [x \in (DOMAIN m) \cup {k} |-> IF x = k THEN v ELSE m[x]]
MapDelete(m, k) == [x \in (DOMAIN m) \ {k} |-> m[x]]

\* An optional object or array of a frame: <<>> when the field is absent,
\* <<v>> when it holds v.
Absent == <<>>
Some(v) == <<v>>

VARIABLES
  hook,                 \* which hook this instance is
  urlOk,                \* whether the WebSocket constructor accepts the url
  wsRef,                \* wsRef.current: 0 (null) or a socket
  socks,                \* the WebSocket objects this hook created
  timers,               \* pending setTimeout timers, in the order they were set
  reconnectTimerRef,    \* reconnectTimerRef.current
  reconnectAttemptsRef, \* reconnectAttemptsRef.current
  isConnectingRef,      \* isConnectingRef.current
  connected, loading, error,   \* the consumer-visible connection state
  localPeerId, messages,       \* useP2P: own identity and the chat log
  peers,                       \* useP2P: the peers store
  workloads, nodes, clusterMetrics,  \* useOrchestrator: its stores
  commands,             \* cancelWorkload / retryWorkload calls in flight
  fetches,              \* REST calls in flight, not part of a batch: their
                        \* number per kind
  batches,              \* fetchOrchestratorData() calls in flight
  task,                 \* the socket whose error event has run and whose
                        \* close event runs next in the same task, or 0
  thrown,               \* history: a call made by the caller threw
  commandRejected,      \* the promise of the command that settled last was
                        \* rejected
  lastOp,               \* history: the handler that ran last
  recording,            \* whether the history below is recorded
  afterDisconnect,      \* history: disconnect() was the caller's last call
  schedRun,             \* history: reconnects scheduled since the last open
                        \* or disconnect()
  abnormalRun,          \* history: abnormal closes since the last open or
                        \* disconnect()
  addedInFlight,        \* history: the <<store, identifier>> of the entities
                        \* that a frame has set in a store while a fetch of
                        \* that store was in flight, and no frame has deleted
  resetRun              \* history: <<n, k>> after the caller's
                        \* resetConnection(), until the caller's next
                        \* connect() or disconnect() and until an event of a
                        \* socket created since: n sockets were created
                        \* since, and the k oldest sockets are older than
                        \* the reset

hookVars == <<wsRef, socks, timers, reconnectTimerRef, reconnectAttemptsRef,
              isConnectingRef, connected, loading, error, localPeerId,
              messages, peers, workloads, nodes, clusterMetrics, commands,
              fetches, batches, thrown, commandRejected>>
histVars == <<lastOp, afterDisconnect, schedRun, abnormalRun, addedInFlight,
              resetRun>>
vars == <<hook, urlOk, recording, hookVars, task, histVars>>

(* --------------------------- the hook state --------------------------- *)
Hook ==
  [wsRef |-> wsRef, socks |-> socks, timers |-> timers,
   reconnectTimerRef |-> reconnectTimerRef,
   reconnectAttemptsRef |-> reconnectAttemptsRef,
   isConnectingRef |-> isConnectingRef,
   connected |-> connected, loading |-> loading, error |-> error,
   localPeerId |-> localPeerId, messages |-> messages, peers |-> peers,
   workloads |-> workloads, nodes |-> nodes,
   clusterMetrics |-> clusterMetrics, commands |-> commands,
   fetches |-> fetches, batches |-> batches, thrown |-> thrown,
   commandRejected |-> commandRejected]

Commit(h) ==
  /\ wsRef' = h.wsRef
  /\ socks' = h.socks
  /\ timers' = h.timers
  /\ reconnectTimerRef' = h.reconnectTimerRef
  /\ reconnectAttemptsRef' = h.reconnectAttemptsRef
  /\ isConnectingRef' = h.isConnectingRef
  /\ connected' = h.connected
  /\ loading' = h.loading
  /\ error' = h.error
  /\ localPeerId' = h.localPeerId
  /\ messages' = h.messages
  /\ peers' = h.peers
  /\ workloads' = h.workloads
  /\ nodes' = h.nodes
  /\ clusterMetrics' = h.clusterMetrics
  /\ commands' = h.commands
  /\ fetches' = h.fetches
  /\ batches' = h.batches
  /\ thrown' = h.thrown
  /\ commandRejected' = h.commandRejected

\* wsRef.current?.readyState
readyState(h) == IF h.wsRef = 0 THEN "NONE" ELSE h.socks[h.wsRef].rs


RECURSIVE Pow2(_)
Pow2(n) == IF n <= 0 THEN 1 ELSE 2 * Pow2(n - 1)

(* ------------------------- timers and sockets ------------------------- *)
\* window.setTimeout(connect, delay): the new timer is the last one set.
\* kind tells the two call sites apart: "backoff" (onclose) and "reset"
\* (resetConnection).
\* The field doomed of a timer is history: the timer was pending when the
\* caller called disconnect().
setTimeout(h, kind, delay) ==
  [h EXCEPT !.timers =
     Append(@, [kind |-> kind, delay |-> delay, doomed |-> FALSE])]

\* The handle the last setTimeout returned.
lastHandle(h) == Len(h.timers)

\* clearTimeout(handle): removes the pending timer with that handle, if any.
clearTimeout(h, handle) ==
  IF handle \in 1..Len(h.timers)
  THEN [h EXCEPT !.timers = RemoveAt(@, handle)]
  ELSE h

\* new WebSocket(url): a socket in state CONNECTING.
newWebSocket(h) ==
  [h EXCEPT !.socks = Append(@, [rs |-> "CONNECTING", opened |-> FALSE,
                                 sent |-> <<>>])]

\* The socket the last newWebSocket returned.
lastSocket(h) == Len(h.socks)

\* WebSocket.send(frame): throws InvalidStateError on a CONNECTING socket,
\* queues the frame on an OPEN one, and drops it on a CLOSING or CLOSED one.
wsSend(h, s, frame) ==
  IF h.socks[s].rs = "CONNECTING" THEN [h EXCEPT !.thrown = TRUE]
  ELSE IF h.socks[s].rs = "OPEN"
       THEN [h EXCEPT !.socks[s].sent = Append(@, frame)]
       ELSE h

\* WebSocket.close(1000, reason): a socket that is not yet closed starts
\* closing; its close event is delivered later.
wsClose(h, s) ==
  IF h.socks[s].rs \in {"CONNECTING", "OPEN"}
  THEN [h EXCEPT !.socks[s].rs = "CLOSING"]
  ELSE h

(* ----------------------------- REST calls ----------------------------- *)
\* fetch(...) of one kind starts: the call is in flight until it settles.
startFetch(h, kind) == [h EXCEPT !.fetches[kind] = @ + 1]

\* useP2P fetchInfo() and fetchPeers(), up to their first await.
fetchInfo(h) == startFetch(h, "info")
fetchPeers(h) == startFetch(h, "peers")

\* useOrchestrator fetchOrchestratorData(), up to its await: loading is set,
\* the error cleared, and the three fetches start.
fetchOrchestratorData(h) ==
  [h EXCEPT !.loading = TRUE, !.error = Null,
            !.batches = Append(@, [workloads |-> "pending",
                                   nodes |-> "pending",
                                   metrics |-> "pending"])]

\* A REST call of one kind has settled.
endFetch(h, kind) == [h EXCEPT !.fetches[kind] = @ - 1]

\* `Peer-${id.slice(0, 12)}`: the identifiers of the model are shorter than
\* 12 characters.
SynthName(id) == "Peer-" \o id

\* A normalization that reads the primary paths only.
normalizePeer_primaryOnly(peer) ==
  LET id == Or(peer.id, "")
  IN  [id |-> id,
       name |-> Or(peer.name, SynthName(id)),
       reputation |-> IF peer.reputation = Undef THEN "0.5"
                      ELSE peer.reputation]

\* useP2P normalizePeer(peer).  A raw peer is a record of the fields id,
\* peer_id, name, display_name and reputation, each Undef when absent; the
\* reputation, when present, is a number.
normalizePeer(peer) ==
  LET id == Or(Or(peer.id, peer.peer_id), "")
  IN  [id |-> id,
       name |-> Or(Or(peer.name, peer.display_name), SynthName(id)),
       reputation |-> IF peer.reputation = Undef THEN "0.5"
                      ELSE peer.reputation]

\* The loop of fetchPeers and of the peers_list frame: every peer of the
\* list with a truthy normalized id is set in the map.
RECURSIVE setPeers(_, _)
setPeers(m, list) ==
  IF list = <<>> THEN m
  ELSE LET normalized == normalizePeer(Head(list))
       IN  setPeers(IF ~Falsy(normalized.id)
                    THEN MapSet(m, normalized.id, normalized) ELSE m,
                    Tail(list))

\* useP2P fetchPeers(), from the response on: the store becomes a new map
\* holding the listed peers.
fetchPeersDone(h, list) ==
  [endFetch(h, "peers") EXCEPT !.peers = setPeers(EmptyMap, list)]

\* useP2P fetchPeers() and fetchInfo(), when fetch or json() rejects.
fetchPeersFailed(h) == endFetch(h, "peers")
fetchInfoFailed(h) == endFetch(h, "info")

\* useP2P fetchInfo(), from the response on.
fetchInfoDone(h, peer_id) ==
  [endFetch(h, "info") EXCEPT !.localPeerId = peer_id]

\* The loops of fetchWorkloads and fetchNodes: every listed entity is set
\* under its id (workloads) or nodeId (nodes).
RECURSIVE setAll(_, _, _)
setAll(m, list, key) ==
  IF list = <<>> THEN m
  ELSE setAll(MapSet(m, Head(list)[key], Head(list)), Tail(list), key)

\* The parsed body of a collection endpoint: a bare array, or an object
\* that holds an array under one field (an object of another shape holds it
\* under a field the hook does not read).
ArrayBody(list) == [shape |-> "array", field |-> "", list |-> list]
ObjectBody(field, list) == [shape |-> "object", field |-> field, list |-> list]

\* Array.isArray(data) ? data : data[field] || []
listOf(data, field) ==
  IF data.shape = "array" THEN data.list
  ELSE IF data.field = field THEN data.list
  ELSE <<>>

\* useOrchestrator fetchWorkloads(), fetchNodes() and fetchClusterMetrics(),
\* from the response of a success status on: the store becomes a new map
\* holding the listed entities.
fetchWorkloadsDone(h, data) ==
  [h EXCEPT !.workloads = setAll(EmptyMap, listOf(data, "workloads"), "id"),
            !.error = Null]
fetchNodesDone(h, data) ==
  [h EXCEPT !.nodes = setAll(EmptyMap, listOf(data, "nodes"), "nodeId"),
            !.error = Null]
fetchClusterMetricsDone(h, metrics) ==
  [h EXCEPT !.clusterMetrics = metrics, !.error = Null]

\* Their catch blocks: the message is stored and the error rethrown.
fetchFailed(h, kind) == [h EXCEPT !.error = "Failed to fetch " \o kind]

\* fetchOrchestratorData() after one of the three fetches of batch b has
\* settled: Promise.all rejects with the first failure (loading is cleared
\* and the message stored again) and resolves when all three succeeded
\* (loading is cleared).  A batch whose fetches have all settled is over.
BatchKinds == {"workloads", "nodes", "metrics"}
settleBatch(h, b, kind, ok) ==
  LET old == h.batches[b]
      new == [old EXCEPT ![kind] = IF ok THEN "ok" ELSE "fail"]
      h1  == IF ~ok /\ \A k \in BatchKinds : old[k] # "fail"
             THEN [h EXCEPT !.loading = FALSE,
                            !.error = "Failed to fetch " \o kind]
             ELSE IF \A k \in BatchKinds : new[k] = "ok"
                  THEN [h EXCEPT !.loading = FALSE]
                  ELSE h
  IN  [h1 EXCEPT !.batches =
         IF \A k \in BatchKinds : new[k] # "pending"
         THEN SubSeq(@, 1, b - 1) \o SubSeq(@, b + 1, Len(@))
         ELSE [@ EXCEPT ![b] = new]]

(* ------------------------------ connect ------------------------------- *)
\* A faulty connect(): it lacks the guard on an open socket.
connectP2P_noOpenGuard(h) ==
  IF h.isConnectingRef THEN h
  ELSE IF readyState(h) = "CONNECTING" THEN h
  ELSE IF h.reconnectAttemptsRef >= MaxReconnectAttempts THEN h
  ELSE LET h1 == [h EXCEPT !.isConnectingRef = TRUE]
       IN  IF urlOk
           THEN LET h2 == newWebSocket(h1)
                IN  [h2 EXCEPT !.wsRef = lastSocket(h2)]
           ELSE [h1 EXCEPT !.isConnectingRef = FALSE]

\* useP2P connect(), from the guards to the assignment of wsRef.current.
connectP2P(h) ==
  IF h.isConnectingRef THEN h
  ELSE IF readyState(h) = "OPEN" THEN h
  ELSE IF readyState(h) = "CONNECTING" THEN h
  ELSE IF h.reconnectAttemptsRef >= MaxReconnectAttempts THEN h
  ELSE LET h1 == [h EXCEPT !.isConnectingRef = TRUE]
       IN  IF urlOk
           THEN LET h2 == newWebSocket(h1)
                IN  [h2 EXCEPT !.wsRef = lastSocket(h2)]
           ELSE [h1 EXCEPT !.isConnectingRef = FALSE]

\* useOrchestrator connect().
connectOrch(h) ==
  IF h.isConnectingRef THEN h
  ELSE IF readyState(h) = "OPEN" THEN h
  ELSE IF readyState(h) = "CONNECTING" THEN h
  ELSE IF h.reconnectAttemptsRef >= MaxReconnectAttempts
       THEN [h EXCEPT !.connected = FALSE, !.loading = FALSE,
                      !.error = "exhausted"]
  ELSE LET h1 == [h EXCEPT !.isConnectingRef = TRUE, !.loading = TRUE,
                           !.error = Null]
       IN  IF urlOk
           THEN LET h2 == newWebSocket(h1)
                IN  [h2 EXCEPT !.wsRef = lastSocket(h2)]
           ELSE [h1 EXCEPT !.isConnectingRef = FALSE, !.loading = FALSE,
                           !.error = "constructor"]

connect(h) == IF hook = "p2p" THEN connectP2P(h) ELSE connectOrch(h)

\* connect() creates a socket.
createsSocket(h) == Len(connect(h).socks) > Len(h.socks)

(* ------------------------- the socket's handlers ---------------------- *)
\* A faulty ws.onopen: it keeps the reconnect counter.
onopenP2P_keepsCounter(h, s) ==
  fetchPeers(fetchInfo(
    [h EXCEPT !.isConnectingRef = FALSE, !.connected = TRUE]))

\* useP2P ws.onopen
onopenP2P(h, s) ==
  fetchPeers(fetchInfo(
    [h EXCEPT !.isConnectingRef = FALSE, !.reconnectAttemptsRef = 0,
              !.connected = TRUE]))

\* A faulty ws.onopen: it does not subscribe to the cluster topic.
onopenOrch_noCluster(h, s) ==
  LET h1 == [h EXCEPT !.isConnectingRef = FALSE, !.reconnectAttemptsRef = 0,
                      !.connected = TRUE, !.loading = FALSE,
                      !.error = Null]
      h2 == fetchOrchestratorData(h1)
  IN  wsSend(wsSend(wsSend(h2, s, "subscribe:orchestrator"),
                    s, "subscribe:workloads"),
             s, "subscribe:nodes")

\* useOrchestrator ws.onopen
onopenOrch(h, s) ==
  LET h1 == [h EXCEPT !.isConnectingRef = FALSE, !.reconnectAttemptsRef = 0,
                      !.connected = TRUE, !.loading = FALSE,
                      !.error = Null]
      h2 == fetchOrchestratorData(h1)
  IN  wsSend(wsSend(wsSend(wsSend(h2, s, "subscribe:orchestrator"),
                           s, "subscribe:workloads"),
                    s, "subscribe:nodes"),
             s, "subscribe:cluster")

onopen(h, s) == IF hook = "p2p" THEN onopenP2P(h, s) ELSE onopenOrch(h, s)

\* A faulty delay: the doubling starts at the first reconnect.
backoffDelay_doubledFirst(n) == ReconnectInterval * Pow2(n)

\* The delay of the reconnect scheduled when the counter has become n.
backoffDelay(n) == ReconnectInterval * Pow2(n - 1)

\* A faulty decision of onclose: it reconnects after a clean close too.
shouldReconnect_anyCode(h, code) ==
  h.reconnectAttemptsRef < MaxReconnectAttempts

\* onclose schedules a reconnect.
shouldReconnect(h, code) ==
  code # CleanCode /\ h.reconnectAttemptsRef < MaxReconnectAttempts

\* A faulty ws.onclose: it schedules the reconnect and leaves the counter
\* as it is.
onclose_keepsCounter(h, code) ==
  LET h1 == [h EXCEPT !.isConnectingRef = FALSE, !.wsRef = 0,
                      !.connected = FALSE]
  IN  IF shouldReconnect(h1, code)
      THEN LET h2 == setTimeout(h1, "backoff",
                                backoffDelay(h1.reconnectAttemptsRef + 1))
           IN  [h2 EXCEPT !.reconnectTimerRef = lastHandle(h2)]
      ELSE h1

\* ws.onclose, the same in both hooks.
onclose(h, code) ==
  LET h1 == [h EXCEPT !.isConnectingRef = FALSE, !.wsRef = 0,
                      !.connected = FALSE]
  IN  IF shouldReconnect(h1, code)
      THEN LET n  == h1.reconnectAttemptsRef + 1
               h2 == setTimeout([h1 EXCEPT !.reconnectAttemptsRef = n],
                                "backoff", backoffDelay(n))
           IN  [h2 EXCEPT !.reconnectTimerRef = lastHandle(h2)]
      ELSE h1

\* A faulty ws.onerror: it counts the failure and schedules the reconnect
\* itself, as onclose does.
onerrorP2P_schedules(h) ==
  LET h1 == [h EXCEPT !.isConnectingRef = FALSE]
  IN  IF h1.reconnectAttemptsRef < MaxReconnectAttempts
      THEN LET n  == h1.reconnectAttemptsRef + 1
               h2 == setTimeout([h1 EXCEPT !.reconnectAttemptsRef = n],
                                "backoff", backoffDelay(n))
           IN  [h2 EXCEPT !.reconnectTimerRef = lastHandle(h2)]
      ELSE h1

\* useP2P ws.onerror
onerrorP2P(h) == [h EXCEPT !.isConnectingRef = FALSE]

\* useOrchestrator ws.onerror
onerrorOrch(h) ==
  [h EXCEPT !.isConnectingRef = FALSE, !.connected = FALSE,
            !.loading = FALSE, !.error = "websocket"]

onerror(h) == IF hook = "p2p" THEN onerrorP2P(h) ELSE onerrorOrch(h)

(* ---------------------- disconnect and reset -------------------------- *)
\* A faulty disconnect(): it also empties the stores and the chat log.
disconnect_clearsStores(h) ==
  LET h1 == IF h.reconnectTimerRef # Undefined
            THEN [clearTimeout(h, h.reconnectTimerRef)
                    EXCEPT !.reconnectTimerRef = Undefined]
            ELSE h
      h2 == [h1 EXCEPT !.reconnectAttemptsRef = 0, !.isConnectingRef = FALSE,
                       !.peers = EmptyMap, !.workloads = EmptyMap,
                       !.nodes = EmptyMap, !.messages = <<>>]
  IN  IF h2.wsRef # 0
      THEN [wsClose(h2, h2.wsRef) EXCEPT !.wsRef = 0]
      ELSE h2

\* disconnect(), the same in both hooks.
disconnect(h) ==
  LET h1 == IF h.reconnectTimerRef # Undefined
            THEN [clearTimeout(h, h.reconnectTimerRef)
                    EXCEPT !.reconnectTimerRef = Undefined]
            ELSE h
      h2 == [h1 EXCEPT !.reconnectAttemptsRef = 0, !.isConnectingRef = FALSE]
  IN  IF h2.wsRef # 0
      THEN [wsClose(h2, h2.wsRef) EXCEPT !.wsRef = 0]
      ELSE h2

\* resetConnection(), the same in both hooks: its timer's handle is kept
\* nowhere.
resetConnection(h) == setTimeout(disconnect(h), "reset", ResetDelay)

(* ------------------------------- sends -------------------------------- *)
\* The local echo sendChat appends.
localEcho(h, content) ==
  [from |-> Or(h.localPeerId, "unknown"),
   content |-> content, local |-> TRUE]

\* The log keeps the 99 newest messages and the appended one.
LogKeep == 99
Last(seq, n) ==
  IF Len(seq) <= n THEN seq ELSE SubSeq(seq, Len(seq) - n + 1, Len(seq))
\* An append that keeps one message more of the log.
appendMessage_keepsOneMore(log, m) == Append(Last(log, LogKeep + 1), m)
appendMessage(log, m) == Append(Last(log, LogKeep), m)

\* A faulty sendChat: it lacks the guard on the readyState, so that it calls
\* send on whatever wsRef.current is.
sendChat_unguarded(h, content) ==
  LET h1 == IF h.wsRef = 0 THEN [h EXCEPT !.thrown = TRUE]
            ELSE wsSend(h, h.wsRef, "send_chat")
  IN  IF h1.thrown THEN h1
      ELSE [h1 EXCEPT
              !.messages = appendMessage(@, localEcho(h1, content))]

\* useP2P sendChat(content): an exception of send ends the call.
sendChat(h, content) ==
  IF readyState(h) # "OPEN" THEN h
  ELSE LET h1 == wsSend(h, h.wsRef, "send_chat")
       IN  IF h1.thrown THEN h1
           ELSE [h1 EXCEPT
                   !.messages = appendMessage(@, localEcho(h1, content))]

\* useOrchestrator sendWorkloadCommand(command, workloadId)
sendWorkloadCommand(h, command) ==
  IF readyState(h) = "OPEN" THEN wsSend(h, h.wsRef, command) ELSE h

(* --------------------------- incoming frames -------------------------- *)
\* message.data?.field, for a field holding a string and for a field holding
\* an object or an array.
dataField(message, field) ==
  IF message.data = Absent THEN Undef ELSE message.data[1][field]
dataOpt(message, field) ==
  IF message.data = Absent THEN Absent ELSE message.data[1][field]

\* A peer_joined frame read as a peer record (peerInfo = message): the
\* fields of the frame normalizePeer reads.
frameAsPeer(message) ==
  [id |-> Undef, peer_id |-> message.peer_id, name |-> message.name,
   display_name |-> message.display_name, reputation |-> message.reputation]

\* message.peer_id || message.data?.peer_id
framePeerId(message) == Or(message.peer_id, dataField(message, "peer_id"))

\* useP2P handleMessage(message)
handleMessageP2P(h, message) ==
  CASE message.type = "peers_list" ->
         LET list == IF message.peers # Absent THEN message.peers[1]
                     ELSE IF dataOpt(message, "peers") # Absent
                          THEN dataOpt(message, "peers")[1]
                     ELSE <<>>
         IN  [h EXCEPT !.peers = setPeers(@, list)]
    [] message.type = "peer_joined" ->
         LET peerId == framePeerId(message)
             peerInfo == IF message.peer_info # Absent
                         THEN message.peer_info[1]
                         ELSE IF dataOpt(message, "peer_info") # Absent
                              THEN dataOpt(message, "peer_info")[1]
                         ELSE frameAsPeer(message)
         IN  IF Falsy(peerId) THEN h
             ELSE [h EXCEPT !.peers =
                     MapSet(@, peerId,
                            normalizePeer([peerInfo EXCEPT !.id = peerId]))]
    [] message.type = "peer_left" ->
         LET peerId == framePeerId(message)
         IN  IF Falsy(peerId) THEN h
             ELSE [h EXCEPT !.peers = MapDelete(@, peerId)]
    [] message.type = "chat_message" ->
         [h EXCEPT !.messages =
            appendMessage(@, IF message.data # Absent THEN message.data[1]
                             ELSE message)]
    [] OTHER -> h

\* useOrchestrator handleMessage(event).  The frames of the kinds that carry
\* one entity hold an object as data.
handleMessageOrch(h, event) ==
  CASE event.type = "workload_list" ->
         [h EXCEPT !.workloads =
            setAll(@, IF event.data = Absent THEN <<>> ELSE event.data[1],
                   "id")]
    [] event.type \in {"workload_created", "workload_updated",
                       "workload_completed", "workload_failed"} ->
         [h EXCEPT !.workloads = MapSet(@, event.data[1].id, event.data[1])]
    [] event.type = "node_list" ->
         [h EXCEPT !.nodes =
            setAll(@, IF event.data = Absent THEN <<>> ELSE event.data[1],
                   "nodeId")]
    [] event.type \in {"node_status", "node_joined"} ->
         [h EXCEPT !.nodes =
            MapSet(@, event.data[1].nodeId, event.data[1])]
    [] event.type = "node_left" ->
         [h EXCEPT !.nodes = MapDelete(@, event.data[1].nodeId)]
    [] event.type = "cluster_metrics" ->
         [h EXCEPT !.clusterMetrics = event.data[1]]
    [] OTHER -> h

\* The frame types useOrchestrator's ws.onmessage passes to handleMessage:
\* those that start with workload_ or node_, and cluster_metrics.
OrchTypes ==
  {"workload_list", "workload_created", "workload_updated",
   "workload_completed", "workload_failed", "workload_cancel",
   "node_list", "node_status", "node_joined", "node_left",
   "cluster_metrics"}

\* A frame whose text is not JSON: JSON.parse throws on it.  (The other
\* frames of the model stand for the text of the object they are.)
NotJson == [type |-> Undef, data |-> Absent, text |-> "{oops"]

\* A faulty ws.onmessage: it has no try/catch around JSON.parse.
onmessage_noCatch(h, message) ==
  IF message = NotJson THEN [h EXCEPT !.thrown = TRUE]
  ELSE IF hook = "p2p" THEN handleMessageP2P(h, message)
  ELSE IF message.type \in OrchTypes THEN handleMessageOrch(h, message)
  ELSE h

\* ws.onmessage: the frame is parsed, the catch block only logs.
onmessage(h, message) ==
  IF message = NotJson THEN h
  ELSE IF hook = "p2p" THEN handleMessageP2P(h, message)
  ELSE IF message.type \in OrchTypes THEN handleMessageOrch(h, message)
  ELSE h

(* ----------------------------- commands ----------------------------- *)
\* cancelWorkload(id) and retryWorkload(id), up to the await of their POST.
startCommand(h, op, id) ==
  [h EXCEPT !.commands = Append(@, [op |-> op, id |-> id])]

\* The i-th command in flight settles: its promise resolves unless its
\* catch block rethrows.
endCommand(h, i) ==
  [h EXCEPT !.commands = SubSeq(@, 1, i - 1) \o SubSeq(@, i + 1, Len(@)),
            !.commandRejected = FALSE]

\* createWorkload(workload) after a successful POST: the workload of the
\* response is set under its id.
createWorkloadDone(h, newWorkload) ==
  [h EXCEPT !.workloads = MapSet(@, newWorkload.id, newWorkload)]

\* cancelWorkload(id) after a successful POST.
cancelWorkloadDone(h, id) ==
  sendWorkloadCommand(
    IF id \in DOMAIN h.workloads
    THEN [h EXCEPT !.workloads[id].status = "cancelled"]
    ELSE h,
    "workload_cancel")

\* retryWorkload(id) after a successful POST.
retryWorkloadDone(h, id) ==
  sendWorkloadCommand(
    IF id \in DOMAIN h.workloads
    THEN [h EXCEPT !.workloads[id].status = "pending",
                   !.workloads[id].progress = 0]
    ELSE h,
    "workload_retry")

\* A catch block that swallows the failure.
commandFailed_swallows(h, op) == h

\* Their catch blocks: the message is stored and the error rethrown.
commandFailed(h, op) ==
  [h EXCEPT !.error = "Failed to " \o op \o " workload",
            !.commandRejected = TRUE]

(* ------------------------------ actions ------------------------------- *)
\* The inputs of the model: chat contents, the identity /api/info reports,
\* and the bodies the collection endpoints return.
Contents == {"hi"}
InfoIds == {"abc"}
RawAlice == [id |-> Undef, peer_id |-> "abc", name |-> Undef,
             display_name |-> "Alice", reputation |-> Undef]
PeerLists == {<<>>, <<RawAlice>>}
WorkloadIds == {"w1"}
RawW1 == [id |-> "w1", status |-> "running", progress |-> 50]
WorkloadLists == {ArrayBody(<<RawW1>>)}
NodeLists == {ArrayBody(<<[nodeId |-> "n1", status |-> "healthy"]>>)}
MetricsBodies == {"m1"}

\* The frames of useP2P.  A frame that names its peer, or lists peers, does
\* so at the top level (flat) or under data (nested).
BobInfo == [id |-> Undef, peer_id |-> Undef, name |-> "Bob",
            display_name |-> Undef, reputation |-> Undef]
PeerJoined(peer_id, peer_info, data) ==
  [type |-> "peer_joined", peer_id |-> peer_id, peer_info |-> peer_info,
   data |-> data, name |-> Undef, display_name |-> Undef,
   reputation |-> Undef]
PeerLeft(peer_id, data) ==
  [type |-> "peer_left", peer_id |-> peer_id, data |-> data]
PeersList(list, data) ==
  [type |-> "peers_list", peers |-> list, data |-> data]
FlatFrames ==
  <<PeerJoined("bob", Some(BobInfo), Absent), PeerJoined("bob", Absent, Absent),
    PeerLeft("bob", Absent), PeersList(Some(<<RawAlice>>), Absent)>>
NestedFrame(f) ==
  CASE f.type = "peer_joined" ->
         [f EXCEPT !.peer_id = Undef, !.peer_info = Absent,
                   !.data = Some([peer_id |-> f.peer_id,
                                  peer_info |-> f.peer_info])]
    [] f.type = "peer_left" ->
         [f EXCEPT !.peer_id = Undef, !.data = Some([peer_id |-> f.peer_id])]
    [] f.type = "peers_list" ->
         [f EXCEPT !.peers = Absent, !.data = Some([peers |-> f.peers])]
\* Frames that name no peer, and a frame of a type the hooks do not know.
NoIdFrames ==
  <<PeerJoined(Undef, Some(BobInfo), Absent), PeerLeft(Undef, Absent)>>
Hello == [type |-> "hello", data |-> Absent]
\* A frame without a type, and a frame of a type that passes the filter of
\* useOrchestrator's ws.onmessage and has no case in handleMessage.
NoType == [type |-> Undef, data |-> Absent]
WorkloadCancel == [type |-> "workload_cancel", data |-> Absent]
\* The frames that are not JSON or have no type the hook knows.
BadFrames == <<NotJson, Hello, NoType, WorkloadCancel>>
NestedFrames == [i \in 1..Len(FlatFrames) |-> NestedFrame(FlatFrames[i])]
\* A chat_message frame with the message under data, and one that is the
\* message itself.  local tells a received message from an echo of sendChat.
ChatNested ==
  [type |-> "chat_message",
   data |-> Some([from |-> "bob", content |-> "yo", local |-> FALSE])]
ChatFlat ==
  [type |-> "chat_message", data |-> Absent,
   from |-> "bob", content |-> "yo", local |-> FALSE]
\* How many messages of the log may be flat frames.
MaxFlat == 1

P2PFrames == FlatFrames \o NestedFrames \o NoIdFrames \o BadFrames

\* The frames of useOrchestrator.
Event(type, data) == [type |-> type, data |-> data]
W1Completed == [id |-> "w1", status |-> "completed", progress |-> 100]
NoIdWorkload == [id |-> Undef, status |-> "pending", progress |-> 0]
N1 == [nodeId |-> "n1", status |-> "healthy"]
OrchFrames ==
  <<Event("workload_updated", Some(W1Completed)),
    Event("workload_created", Some(NoIdWorkload)),
    Event("workload_list", Some(<<RawW1>>)),
    Event("node_joined", Some(N1)),
    Event("node_left", Some([nodeId |-> "n1"])),
    Event("node_left", Some([nodeId |-> Undef])),
    Event("cluster_metrics", Some("m1"))>> \o BadFrames
\* The frames the hook of this instance may receive.
Frames == IF hook = "p2p" THEN P2PFrames ELSE OrchFrames

\* The bodies of the collection endpoints, those of neither expected shape
\* included, and the workload createWorkload's POST returns.
Bodies(kind) ==
  CASE kind = "workloads" ->
         {ArrayBody(<<RawW1>>), ObjectBody("workloads", <<RawW1>>),
          ObjectBody("items", <<RawW1>>)}
    [] kind = "nodes" -> {ArrayBody(<<N1>>), ObjectBody("items", <<N1>>)}
    [] kind = "metrics" -> MetricsBodies
CreatedWorkloads == {[id |-> "w2", status |-> "pending", progress |-> 0]}

\* The history of the connection is recorded when recording is set.
Rec(new, old) == IF recording THEN new ELSE old

\* History of resetConnection(): not kept (Off), no reset to follow
\* (NoReset), or <<n, k>>.
Off == <<-2, 0>>
NoReset == <<-1, 0>>
Track(new) == IF resetRun = Off THEN Off ELSE new
\* Socket s was created after the reset that is followed.
SinceReset(s) == resetRun[1] >= 0 /\ s > resetRun[2]
\* An event of socket s other than its close event; its close event.
AfterEvent(s) == Track(IF SinceReset(s) THEN NoReset ELSE resetRun)
AfterClose(s) ==
  Track(IF SinceReset(s) THEN NoReset
        ELSE IF resetRun[1] >= 0 THEN <<resetRun[1], resetRun[2] - 1>>
        ELSE resetRun)

\* History: every pending timer is marked as pending at a disconnect().
Doom(ts) ==
  Rec([i \in 1..Len(ts) |-> [ts[i] EXCEPT !.doomed = TRUE]], ts)

\* Frames onopen itself sends on the socket.
SubscribeCount == IF hook = "p2p" THEN 0 ELSE 4

\* The state after the first render of the hook, before its mount effect.
InitHook ==
  /\ hook \in Hooks
  /\ urlOk \in BOOLEAN
  /\ wsRef = 0
  /\ socks = <<>>
  /\ timers = <<>>
  /\ reconnectTimerRef = Undefined
  /\ reconnectAttemptsRef = 0
  /\ isConnectingRef = FALSE
  /\ connected = FALSE
  /\ loading = FALSE
  /\ error = Null
  /\ localPeerId = Null
  /\ messages = <<>>
  /\ peers = EmptyMap
  /\ workloads = EmptyMap
  /\ nodes = EmptyMap
  /\ clusterMetrics = Null
  /\ commands = <<>>
  /\ fetches = [k \in {"info", "peers"} |-> 0]
  /\ batches = <<>>
  /\ task = 0
  /\ thrown = FALSE
  /\ commandRejected = FALSE
  /\ lastOp = "init"
  /\ afterDisconnect = FALSE
  /\ schedRun = 0
  /\ abnormalRun = 0
  /\ addedInFlight = {}

Init == InitHook /\ recording = TRUE /\ resetRun = Off

\* The caller calls connect().  useOrchestrator returns connect to its
\* consumer.  useP2P does not: its connect() is called by the mount effect,
\* on mount and, when the effect runs again, right after the disconnect() of
\* its cleanup (and by the timers, see TimerFire).
Connect ==
  /\ task = 0
  /\ hook = "p2p" => lastOp \in {"init", "disconnect"}
  /\ createsSocket(Hook) => Len(socks) < MaxSockets
  /\ Commit(connect(Hook))
  /\ lastOp' = "connect"
  /\ afterDisconnect' = Rec(FALSE, afterDisconnect)
  /\ resetRun' = Track(NoReset)
  /\ UNCHANGED <<addedInFlight, hook, urlOk, recording, task, schedRun, abnormalRun>>

\* The caller (or the unmount effect) calls disconnect().
Disconnect ==
  /\ task = 0
  /\ Commit([disconnect(Hook) EXCEPT !.timers = Doom(@)])
  /\ lastOp' = "disconnect"
  /\ afterDisconnect' = Rec(TRUE, afterDisconnect)
  /\ schedRun' = Rec(0, schedRun)
  /\ abnormalRun' = Rec(0, abnormalRun)
  /\ resetRun' = Track(NoReset)
  /\ UNCHANGED <<addedInFlight, hook, urlOk, recording, task>>

\* The caller calls resetConnection().
ResetConnection ==
  /\ task = 0
  /\ Len(disconnect(Hook).timers) < MaxTimers
  /\ Commit(resetConnection(Hook))
  /\ lastOp' = "resetConnection"
  /\ afterDisconnect' = Rec(FALSE, afterDisconnect)
  /\ schedRun' = Rec(0, schedRun)
  /\ abnormalRun' = Rec(0, abnormalRun)
  /\ resetRun' = Track(<<0, Len(socks)>>)
  /\ UNCHANGED <<addedInFlight, hook, urlOk, recording, task>>

\* The i-th pending timer is due and runs connect().  A timer set earlier
\* with a delay that is not longer is due before it.
TimerFire(i) ==
  /\ task = 0
  /\ i \in 1..Len(timers)
  /\ \A j \in 1..(i - 1) : timers[j].delay > timers[i].delay
  /\ LET h1 == [Hook EXCEPT
                  !.timers = RemoveAt(@, i),
                  !.reconnectTimerRef =
                     IF @ = i THEN StaleHandle ELSE Shift(@, i)]
     IN  /\ createsSocket(h1) => Len(socks) < MaxSockets
         /\ Commit(connect(h1))
  /\ lastOp' = "timer"
  /\ resetRun' = Track(IF resetRun[1] >= 0 /\ createsSocket(Hook)
                      THEN <<IF resetRun[1] < 2 THEN resetRun[1] + 1 ELSE 2,
                             resetRun[2]>>
                      ELSE resetRun)
  /\ UNCHANGED <<addedInFlight, hook, urlOk, recording, task, afterDisconnect, schedRun, abnormalRun>>

\* The connection of socket s is established: its open event.
WsOpen(s) ==
  /\ task = 0
  /\ s \in 1..Len(socks)
  /\ socks[s].rs = "CONNECTING"
  /\ hook = "p2p" =>
       fetches["info"] < MaxInflight /\ fetches["peers"] < MaxInflight
  /\ hook = "orch" => Len(batches) < MaxInflight
  /\ Commit(onopen([Hook EXCEPT !.socks[s].rs = "OPEN",
                                !.socks[s].opened = TRUE], s))
  /\ lastOp' = "onopen"
  /\ schedRun' = Rec(0, schedRun)
  /\ abnormalRun' = Rec(0, abnormalRun)
  /\ resetRun' = AfterEvent(s)
  /\ UNCHANGED <<addedInFlight, hook, urlOk, recording, task, afterDisconnect>>

\* The connection of socket s fails or is lost: the socket is closed, its
\* error event runs, and its close event follows in the same task.
WsError(s) ==
  /\ task = 0
  /\ s \in 1..Len(socks)
  /\ socks[s].rs \in {"CONNECTING", "OPEN", "CLOSING"}
  /\ Commit(onerror([Hook EXCEPT !.socks[s].rs = "CLOSED"]))
  /\ task' = s
  /\ lastOp' = "onerror"
  /\ resetRun' = AfterEvent(s)
  /\ UNCHANGED <<addedInFlight, hook, urlOk, recording, afterDisconnect, schedRun, abnormalRun>>

\* The server starts the closing handshake of the open socket s: the socket
\* is CLOSING until its close event.  No handler runs.
WsClosing(s) ==
  /\ task = 0
  /\ s \in 1..Len(socks)
  /\ socks[s].rs = "OPEN"
  /\ socks' = [socks EXCEPT ![s].rs = "CLOSING"]
  /\ UNCHANGED <<hook, urlOk, recording, wsRef, timers, reconnectTimerRef,
                 reconnectAttemptsRef, isConnectingRef, connected, loading,
                 error, localPeerId, messages, peers, workloads, nodes,
                 clusterMetrics, commands, fetches, batches, thrown,
                 commandRejected, task, histVars>>

\* The close event of socket s with the given code: after its error event
\* (code 1006), or at the end of a closing handshake of a socket that was
\* open (the code of the server's close frame).  The socket is gone after
\* its handler has run.
WsClose(s, code) ==
  /\ s \in 1..Len(socks)
  /\ \/ task = s /\ code = AbnormalCode
     \/ /\ task = 0
        /\ socks[s].rs \in {"OPEN", "CLOSING"}
        /\ socks[s].opened
        /\ code \in {CleanCode, GoingAwayCode}
  /\ shouldReconnect(Hook, code) => Len(timers) < MaxTimers
  /\ LET h1 == onclose(Hook, code)
     IN  Commit([h1 EXCEPT !.socks = RemoveAt(@, s),
                           !.wsRef = IF @ = s THEN 0 ELSE Shift(@, s)])
  /\ task' = 0
  /\ lastOp' = "onclose"
  /\ schedRun' = Rec(IF shouldReconnect(Hook, code) THEN schedRun + 1
                     ELSE schedRun, schedRun)
  /\ abnormalRun' = Rec(IF code # CleanCode
                           /\ abnormalRun <= MaxReconnectAttempts
                        THEN abnormalRun + 1 ELSE abnormalRun, abnormalRun)
  /\ resetRun' = AfterClose(s)
  /\ UNCHANGED <<addedInFlight, hook, urlOk, recording, afterDisconnect>>

\* The chat panel calls sendChat(content).
SendChat(content) ==
  /\ task = 0
  /\ hook = "p2p"
  /\ readyState(Hook) = "OPEN" =>
       /\ Len(socks[wsRef].sent) < MaxSends
       /\ Cardinality({i \in 1..Len(messages) : messages[i].local}) < MaxSends
  /\ Commit(sendChat(Hook, content))
  /\ lastOp' = "sendChat"
  /\ UNCHANGED <<resetRun, addedInFlight, hook, urlOk, recording, task, afterDisconnect, schedRun,
                 abnormalRun>>

\* The response of /api/info arrives and is parsed (ok), or the call fails.
FetchInfoSettles(ok, peer_id) ==
  /\ task = 0
  /\ fetches["info"] > 0
  /\ Commit(IF ok THEN fetchInfoDone(Hook, peer_id) ELSE fetchInfoFailed(Hook))
  /\ lastOp' = "fetchInfo"
  /\ UNCHANGED <<resetRun, addedInFlight, hook, urlOk, recording, task, afterDisconnect, schedRun,
                 abnormalRun>>

\* The response of /api/peers arrives and is parsed (ok), or the call fails.
FetchPeersSettles(ok, list) ==
  /\ task = 0
  /\ fetches["peers"] > 0
  /\ Commit(IF ok THEN fetchPeersDone(Hook, list) ELSE fetchPeersFailed(Hook))
  /\ lastOp' = "fetchPeers"
  /\ addedInFlight' = Rec(IF fetches["peers"] = 1 THEN {} ELSE addedInFlight,
                          addedInFlight)
  /\ UNCHANGED <<resetRun, hook, urlOk, recording, task, afterDisconnect, schedRun,
                 abnormalRun>>

\* One fetch of the fetchOrchestratorData() call b has received the body
\* data with a success status.
BatchFetchDone(h, kind, data) ==
  CASE kind = "workloads" -> fetchWorkloadsDone(h, data)
    [] kind = "nodes" -> fetchNodesDone(h, data)
    [] kind = "metrics" -> fetchClusterMetricsDone(h, data)

\* One fetch of the fetchOrchestratorData() call b settles: with a success
\* status and the body data (ok), or with a network failure or another
\* status.
BatchFetchResponse(b, kind, ok, data) ==
  /\ task = 0
  /\ b \in 1..Len(batches)
  /\ batches[b][kind] = "pending"
  /\ Commit(IF ok
            THEN BatchFetchDone(settleBatch(Hook, b, kind, TRUE), kind, data)
            ELSE settleBatch(fetchFailed(Hook, kind), b, kind, FALSE))
  /\ lastOp' = "fetch"
  /\ addedInFlight' =
       Rec(IF \E c \in 1..Len(batches) : c # b /\ batches[c][kind] = "pending"
           THEN addedInFlight
           ELSE {e \in addedInFlight : e[1] # kind}, addedInFlight)
  /\ UNCHANGED <<resetRun, hook, urlOk, recording, task, afterDisconnect, schedRun,
                 abnormalRun>>

\* The bodies the service returns when all is well.
GoodBodies(kind) ==
  CASE kind = "workloads" -> WorkloadLists
    [] kind = "nodes" -> NodeLists
    [] kind = "metrics" -> MetricsBodies

BatchFetchSettles(b, kind, ok) ==
  \E data \in GoodBodies(kind) : BatchFetchResponse(b, kind, ok, data)

\* The consumer calls createWorkload(workload) (id is Undef: the request
\* names no workload), cancelWorkload(id) or retryWorkload(id).
CommandStarts(op, id) ==
  /\ task = 0
  /\ hook = "orch"
  /\ Len(commands) < MaxInflight
  /\ Commit(startCommand(Hook, op, id))
  /\ lastOp' = op
  /\ UNCHANGED <<resetRun, addedInFlight, hook, urlOk, recording, task, afterDisconnect, schedRun,
                 abnormalRun>>

\* The POST of the i-th command in flight settles.
CommandSettles(i, ok) ==
  /\ task = 0
  /\ i \in 1..Len(commands)
  /\ readyState(Hook) = "OPEN" =>
       Len(socks[wsRef].sent) < SubscribeCount + MaxSends
  /\ LET c == commands[i]
         h == endCommand(Hook, i)
     IN  \E newWorkload \in CreatedWorkloads :
           Commit(IF ~ok THEN commandFailed(h, c.op)
                  ELSE IF c.op = "create"
                       THEN createWorkloadDone(h, newWorkload)
                  ELSE IF c.op = "cancel" THEN cancelWorkloadDone(h, c.id)
                  ELSE retryWorkloadDone(h, c.id))
  /\ lastOp' = "command"
  /\ UNCHANGED <<resetRun, addedInFlight, hook, urlOk, recording, task, afterDisconnect, schedRun,
                 abnormalRun>>

\* History: the entity a frame sets in a store while a fetch of that store
\* is in flight, and the entity a frame deletes.
EventTarget(message) ==
  IF hook = "p2p"
  THEN IF message.type \in {"peer_joined", "peer_left"}
       THEN <<"peers", framePeerId(message)>> ELSE <<"none", Undef>>
  ELSE IF message.type \in {"workload_created", "workload_updated",
                            "workload_completed", "workload_failed"}
       THEN <<"workloads", message.data[1].id>>
  ELSE IF message.type \in {"node_status", "node_joined", "node_left"}
       THEN <<"nodes", message.data[1].nodeId>>
  ELSE <<"none", Undef>>
EventRemoves(message) == message.type \in {"peer_left", "node_left"}
StoreInFlight(store) ==
  IF store = "peers" THEN fetches["peers"] > 0
  ELSE \E b \in 1..Len(batches) : batches[b][store] = "pending"

\* The frame message arrives on socket s, which has opened and has not
\* delivered its close event.
WsMessage(s, message) ==
  /\ task = 0
  /\ s \in 1..Len(socks)
  /\ socks[s].rs \in {"OPEN", "CLOSING"}
  /\ socks[s].opened
  /\ Commit(onmessage(Hook, message))
  /\ lastOp' = IF message = NotJson THEN "onmessage:catch" ELSE "onmessage"
  /\ addedInFlight' =
       Rec(LET e == EventTarget(message)
           IN  IF e[1] = "none" \/ Falsy(e[2]) THEN addedInFlight
               ELSE IF EventRemoves(message) THEN addedInFlight \ {e}
               ELSE IF StoreInFlight(e[1]) THEN addedInFlight \cup {e}
               ELSE addedInFlight, addedInFlight)
  /\ UNCHANGED <<resetRun, hook, urlOk, recording, task, afterDisconnect, schedRun,
                 abnormalRun>>

\* The consumer calls refreshPeers() (useP2P) or refreshData()
\* (useOrchestrator).
RefreshPeers ==
  /\ task = 0
  /\ hook = "p2p"
  /\ fetches["peers"] < MaxInflight
  /\ Commit(fetchPeers(Hook))
  /\ lastOp' = "refreshPeers"
  /\ UNCHANGED <<resetRun, addedInFlight, hook, urlOk, recording, task,
                 afterDisconnect, schedRun, abnormalRun>>

RefreshData ==
  /\ task = 0
  /\ hook = "orch"
  /\ Len(batches) < MaxInflight
  /\ Commit(fetchOrchestratorData(Hook))
  /\ lastOp' = "refreshData"
  /\ UNCHANGED <<resetRun, addedInFlight, hook, urlOk, recording, task,
                 afterDisconnect, schedRun, abnormalRun>>

\* No REST call is in flight.
RestIdle ==
  /\ \A k \in DOMAIN fetches : fetches[k] = 0
  /\ batches = <<>>
  /\ commands = <<>>

\* The connection, with a REST service that answers at once: a REST call
\* settles before the next call of the caller, timer or socket event.  The
\* continuations of the REST calls write none of wsRef, the timers, the
\* reconnect counter and isConnectingRef, and read none of them but the
\* readyState of the socket a command is sent on.
Next ==
  \/ RestIdle /\ Connect
  \/ RestIdle /\ Disconnect
  \/ RestIdle /\ ResetConnection
  \/ \E i \in TimerIds : RestIdle /\ TimerFire(i)
  \/ \E s \in SockIds : RestIdle /\ WsOpen(s)
  \/ \E s \in SockIds : RestIdle /\ WsError(s)
  \/ \E s \in SockIds : RestIdle /\ WsClosing(s)
  \/ \E s \in SockIds, code \in CloseCodes : RestIdle /\ WsClose(s, code)
  \/ \E ok \in BOOLEAN, id \in InfoIds : FetchInfoSettles(ok, id)
  \/ \E ok \in BOOLEAN, list \in PeerLists : FetchPeersSettles(ok, list)
  \/ \E b \in 1..MaxInflight, kind \in BatchKinds, ok \in BOOLEAN :
       BatchFetchSettles(b, kind, ok)

Spec == Init /\ [][Next]_vars

\* The connection and the caller's sends and commands, without the history
\* of the connection and with a REST service whose snapshots succeed.
InitSend == InitHook /\ recording = FALSE /\ resetRun = Off

NextSend ==
  \/ RestIdle /\ Connect
  \/ RestIdle /\ Disconnect
  \/ RestIdle /\ ResetConnection
  \/ \E i \in TimerIds : RestIdle /\ TimerFire(i)
  \/ \E s \in SockIds : RestIdle /\ WsOpen(s)
  \/ \E s \in SockIds : RestIdle /\ WsError(s)
  \/ \E s \in SockIds : RestIdle /\ WsClosing(s)
  \/ \E s \in SockIds, code \in CloseCodes : RestIdle /\ WsClose(s, code)
  \/ \E content \in Contents : RestIdle /\ SendChat(content)
  \/ \E op \in {"cancel", "retry"}, id \in WorkloadIds :
       RestIdle /\ CommandStarts(op, id)
  \/ \E id \in InfoIds : FetchInfoSettles(TRUE, id)
  \/ \E list \in PeerLists : FetchPeersSettles(TRUE, list)
  \/ \E b \in 1..MaxInflight, kind \in BatchKinds :
       BatchFetchSettles(b, kind, TRUE)
  \/ \E i \in 1..MaxInflight, ok \in BOOLEAN : CommandSettles(i, ok)

SpecSend == InitSend /\ [][NextSend]_vars

\* The stores: one connection that stays up, the frames it delivers, and
\* the hydration and refresh fetches with every kind of response.  A frame
\* may arrive while REST calls are in flight.
NextData ==
  \/ Connect
  \/ \E s \in SockIds : WsOpen(s)
  \/ \E s \in SockIds, i \in 1..Len(Frames) : WsMessage(s, Frames[i])
  \/ RefreshPeers
  \/ RefreshData
  \/ \E ok \in BOOLEAN, id \in InfoIds : FetchInfoSettles(ok, id)
  \/ \E ok \in BOOLEAN, list \in PeerLists : FetchPeersSettles(ok, list)
  \/ \E b \in 1..MaxInflight, kind \in BatchKinds, ok \in BOOLEAN :
       \E data \in Bodies(kind) : BatchFetchResponse(b, kind, ok, data)

SpecData == Init /\ [][NextData]_vars

\* The commands of useOrchestrator: one connection that stays up, its
\* hydration and the refreshes (their fetches succeed), a frame that
\* updates a workload, and the three commands, whose POST succeeds or fails.
NextCommands ==
  \/ Connect
  \/ \E s \in SockIds : WsOpen(s)
  \/ \E s \in SockIds : WsMessage(s, OrchFrames[1])
  \/ RefreshData
  \/ \E id \in InfoIds : FetchInfoSettles(TRUE, id)
  \/ \E list \in PeerLists : FetchPeersSettles(TRUE, list)
  \/ \E b \in 1..MaxInflight, kind \in BatchKinds :
       BatchFetchSettles(b, kind, TRUE)
  \/ \E id \in WorkloadIds : CommandStarts("cancel", id)
  \/ \E id \in WorkloadIds : CommandStarts("retry", id)
  \/ CommandStarts("create", Undef)
  \/ \E i \in 1..MaxInflight, ok \in BOOLEAN : CommandSettles(i, ok)

SpecCommands == InitSend /\ [][NextCommands]_vars

(* ------------------------------ claims -------------------------------- *)
\* The sockets of the hook that are connecting or open.
LiveSockets == {s \in 1..Len(socks) : socks[s].rs \in {"CONNECTING", "OPEN"}}

\* A step creates a socket; a step sets a timer.
SocketCreated == Len(socks') > Len(socks)
TimerSet == Len(timers') > Len(timers)

\* C1: at most one WebSocket of the hook is connecting or open at any time.
C1_AtMostOneLiveSocket == Cardinality(LiveSockets) <= 1

\* connect() returns at one of its idempotency guards.
ConnectRefused ==
  isConnectingRef \/ readyState(Hook) \in {"OPEN", "CONNECTING"}

\* C2: connect() called while an attempt is in progress or the current
\* socket is connecting or open changes nothing of the hook's state; run by
\* a timer, it changes nothing but that the timer is no longer pending.
C2_ConnectIdempotent ==
  [][/\ (Connect /\ ConnectRefused) => UNCHANGED hookVars
     /\ \A i \in TimerIds :
          (TimerFire(i) /\ ConnectRefused) =>
             /\ timers' = RemoveAt(timers, i)
             /\ UNCHANGED <<wsRef, socks, reconnectAttemptsRef,
                            isConnectingRef, connected, loading, error,
                            localPeerId, messages, peers, workloads, nodes,
                            clusterMetrics, commands, fetches, batches,
                            thrown, commandRejected>>]_vars

\* connect() has just been called on an open socket.
C2_Witness == lastOp = "connect" /\ readyState(Hook) = "OPEN"

\* C3: after maxReconnectAttempts consecutive abnormal closes, connect()
\* creates no socket and reports the exhausted state: a non-null error with
\* connected and loading false.
C3_ExhaustedReported ==
  [][((Connect \/ \E i \in TimerIds : TimerFire(i))
        /\ abnormalRun = MaxReconnectAttempts) =>
       (~SocketCreated /\ error' # Null /\ ~connected' /\ ~loading')]_vars

\* C4: after disconnect(), until the caller's next connect() or
\* resetConnection(), no socket is created and no reconnect is scheduled,
\* whatever events of the closed socket arrive.  (The timers that were
\* pending at the disconnect are the subject of C5.)
C4_DisconnectTerminal ==
  [][(/\ afterDisconnect /\ afterDisconnect'
      /\ ~\E i \in TimerIds : TimerFire(i) /\ timers[i].doomed) =>
       (~SocketCreated /\ ~TimerSet)]_vars

\* C5: a timer that was pending when the caller called disconnect() never
\* creates a socket.
C5_DisconnectCancelsTimers ==
  [][\A i \in TimerIds :
       (TimerFire(i) /\ timers[i].doomed) => ~SocketCreated]_vars

\* C6: the k-th consecutive reconnect scheduled since the last open or
\* disconnect() has the delay reconnectInterval * 2^(k-1), k in
\* 1..maxReconnectAttempts.
C6_BackoffDelay ==
  [][\A s \in SockIds, code \in CloseCodes :
       (WsClose(s, code) /\ TimerSet) =>
          /\ schedRun' \in 1..MaxReconnectAttempts
          /\ timers'[Len(timers')].delay =
               ReconnectInterval * 2^(schedRun' - 1)]_vars

\* The reconnect numbered maxReconnectAttempts is pending.
C6_Witness ==
  /\ schedRun = MaxReconnectAttempts
  /\ \E i \in 1..Len(timers) :
       /\ timers[i].kind = "backoff"
       /\ timers[i].delay = ReconnectInterval * 2^(MaxReconnectAttempts - 1)

\* C7: the reconnect counter is within 0..maxReconnectAttempts, is zero
\* right after an open, and equals the number of reconnects scheduled since
\* the last open or disconnect().
C7_CounterCountsReconnects ==
  /\ reconnectAttemptsRef \in 0..MaxReconnectAttempts
  /\ reconnectAttemptsRef = schedRun
  /\ lastOp = "onopen" => reconnectAttemptsRef = 0

\* A socket has opened while a reconnect scheduled by an earlier close is
\* still pending.
C7_Witness ==
  /\ lastOp = "onopen"
  /\ reconnectAttemptsRef = 0
  /\ \E i \in 1..Len(timers) : timers[i].kind = "backoff"

\* C8: a close event schedules a reconnect exactly if its code is not 1000
\* and the counter is below maxReconnectAttempts; then the counter grows by
\* one and one connect() is scheduled; otherwise neither changes.
C8_CloseSchedulesReconnect ==
  [][\A s \in SockIds, code \in CloseCodes :
       WsClose(s, code) =>
          IF code # CleanCode /\ reconnectAttemptsRef < MaxReconnectAttempts
          THEN /\ reconnectAttemptsRef' = reconnectAttemptsRef + 1
               /\ Len(timers') = Len(timers) + 1
               /\ SubSeq(timers', 1, Len(timers)) = timers
               /\ timers'[Len(timers')].kind = "backoff"
               /\ reconnectTimerRef' = Len(timers')
          ELSE /\ reconnectAttemptsRef' = reconnectAttemptsRef
               /\ timers' = timers]_vars

\* A close has just scheduled a reconnect.
C8_Witness ==
  /\ lastOp = "onclose"
  /\ timers # <<>>
  /\ reconnectTimerRef = Len(timers)
  /\ reconnectAttemptsRef > 0

\* C9: a send puts its frame on the current socket when that socket is
\* open; in every other state (no socket, connecting, closing, closed) it
\* writes nothing to any socket; it never throws.  The sends are sendChat
\* and the sendWorkloadCommand that ends a successful cancelWorkload or
\* retryWorkload.
C9_SendOnlyWhenOpen ==
  [][/\ \A content \in Contents :
          SendChat(content) =>
             /\ ~thrown'
             /\ IF readyState(Hook) = "OPEN"
                THEN socks' = [socks EXCEPT
                                 ![wsRef].sent = Append(@, "send_chat")]
                ELSE socks' = socks
     /\ \A i \in 1..MaxInflight, ok \in BOOLEAN :
          CommandSettles(i, ok) =>
             /\ ~thrown'
             /\ IF ok /\ readyState(Hook) = "OPEN"
                THEN socks' = [socks EXCEPT
                                 ![wsRef].sent =
                                    Append(@, "workload_" \o commands[i].op)]
                ELSE socks' = socks]_vars

\* sendChat has just been called on a connecting socket, and nothing was
\* written to it.
C9_Witness ==
  /\ lastOp = "sendChat"
  /\ readyState(Hook) = "CONNECTING"
  /\ socks[wsRef].sent = <<>>
  /\ ~thrown

\* C10: sendChat(content) called while the socket is not open sends nothing
\* and appends to the message log one local echo with that content and
\* from = the local peer id.
C10_EchoWhenNotOpen ==
  [][\A content \in Contents :
       (SendChat(content) /\ readyState(Hook) # "OPEN") =>
          /\ socks' = socks
          /\ Len(messages') = Len(messages) + 1
          /\ messages'[Len(messages')].content = content
          /\ messages'[Len(messages')].from = localPeerId]_vars

\* A flat chat_message frame arrives.
FlatChat(s) ==
  /\ Cardinality({i \in 1..Len(messages) : messages[i] = ChatFlat}) < MaxFlat
  /\ WsMessage(s, ChatFlat)

\* The chat log: one connection that stays up, the chat frames it delivers
\* and the messages the consumer sends.  No response of the REST calls of
\* the mount arrives meanwhile.
NextLog ==
  \/ Connect
  \/ \E s \in SockIds : WsOpen(s)
  \/ \E s \in SockIds : WsMessage(s, ChatNested)
  \/ \E s \in SockIds : FlatChat(s)
  \/ \E content \in Contents : SendChat(content)

SpecLog == InitSend /\ [][NextLog]_vars

(* ------------------------- claims on the stores ----------------------- *)
\* The store a frame or a fetch writes, by its name.
StoreOf(name) ==
  CASE name = "peers" -> peers
    [] name = "workloads" -> workloads
    [] name = "nodes" -> nodes

\* The frame is a single-entity event that names its entity.
NamesEntity(message) ==
  EventTarget(message)[1] # "none" /\ ~Falsy(EventTarget(message)[2])

\* The entity a single-entity upsert event carries: the canonical peer made
\* of the peer information of the frame, or the object under data.
EventEntity(message) ==
  IF hook = "p2p"
  THEN LET info == IF message.peer_info # Absent THEN message.peer_info[1]
                   ELSE IF dataOpt(message, "peer_info") # Absent
                        THEN dataOpt(message, "peer_info")[1]
                   ELSE frameAsPeer(message)
       IN  normalizePeer([info EXCEPT !.id = framePeerId(message)])
  ELSE message.data[1]

\* new is old with entity under id, all other entries as they were.
IsUpsertOf(new, old, id, entity) ==
  /\ DOMAIN new = DOMAIN old \cup {id}
  /\ new[id] = entity
  /\ \A k \in DOMAIN old \ {id} : new[k] = old[k]

\* new is old without id, all other entries as they were.
IsRemoveOf(new, old, id) ==
  /\ DOMAIN new = DOMAIN old \ {id}
  /\ \A k \in DOMAIN new : new[k] = old[k]

\* C11: every single-entity upsert or remove event is applied, on arrival,
\* to the content the store has then: the upsert sets the entity of the
\* event under its identifier, replacing the entry held there, the remove
\* deletes that identifier, and all other entries stay.  (By induction on
\* the frames delivered, the store is the replay of the events in arrival
\* order.)
C11_EventsReplayInOrder ==
  [][\A s \in SockIds, i \in 1..Len(Frames) :
       (WsMessage(s, Frames[i]) /\ NamesEntity(Frames[i])) =>
          LET e == EventTarget(Frames[i])
          IN  /\ IF EventRemoves(Frames[i])
                 THEN IsRemoveOf(StoreOf(e[1])', StoreOf(e[1]), e[2])
                 ELSE IsUpsertOf(StoreOf(e[1])', StoreOf(e[1]), e[2],
                                 EventEntity(Frames[i]))
              /\ \A other \in {"peers", "workloads", "nodes"} \ {e[1]} :
                   StoreOf(other)' = StoreOf(other)]_vars

\* A frame has been applied to a store that holds two peers, one of them
\* set by a peer_joined frame that carried no name.
C11_Witness ==
  /\ lastOp = "onmessage"
  /\ DOMAIN peers = {"abc", "bob"}
  /\ peers["bob"].name = SynthName("bob")

\* new holds every identifier of ids, and every entry of old not named in
\* ids as it was.
SnapshotMerged(new, old, ids) ==
  /\ ids \subseteq DOMAIN new
  /\ \A k \in DOMAIN old \ ids : k \in DOMAIN new /\ new[k] = old[k]

\* The identifiers of the entities of a snapshot.
PeerIds(list) ==
  {normalizePeer(list[i]).id : i \in 1..Len(list)} \ {""}
KeysOf(list, key) == {list[i][key] : i \in 1..Len(list)}

\* C12: applying a collection snapshot, of a fetch or of a frame, leaves
\* every entity of the snapshot in the store and removes no entity that is
\* absent from the snapshot.
C12_SnapshotMerges ==
  [][/\ \A list \in PeerLists :
          FetchPeersSettles(TRUE, list) =>
             SnapshotMerged(peers', peers, PeerIds(list))
     /\ \A b \in 1..MaxInflight, data \in Bodies("workloads") :
          BatchFetchResponse(b, "workloads", TRUE, data) =>
             SnapshotMerged(workloads', workloads,
                            KeysOf(listOf(data, "workloads"), "id"))
     /\ \A b \in 1..MaxInflight, data \in Bodies("nodes") :
          BatchFetchResponse(b, "nodes", TRUE, data) =>
             SnapshotMerged(nodes', nodes,
                            KeysOf(listOf(data, "nodes"), "nodeId"))
     /\ \A s \in SockIds, i \in 1..Len(Frames) :
          WsMessage(s, Frames[i]) =>
             CASE Frames[i].type = "peers_list" /\ hook = "p2p" ->
                    SnapshotMerged(peers', peers, PeerIds(<<RawAlice>>))
               [] Frames[i].type = "workload_list" /\ hook = "orch" ->
                    SnapshotMerged(workloads', workloads,
                                   KeysOf(Frames[i].data[1], "id"))
               [] OTHER -> TRUE]_vars

\* C13: an entity a frame has set in a store while a fetch of that store
\* was in flight is still in the store when the response of the fetch has
\* been applied.
C13_EventSurvivesStaleSnapshot ==
  [][/\ \A list \in PeerLists :
          FetchPeersSettles(TRUE, list) =>
             \A e \in addedInFlight : e[1] = "peers" => e[2] \in DOMAIN peers'
     /\ \A b \in 1..MaxInflight, kind \in {"workloads", "nodes"} :
          \A data \in Bodies(kind) :
             BatchFetchResponse(b, kind, TRUE, data) =>
                \A e \in addedInFlight :
                   e[1] = kind => e[2] \in DOMAIN StoreOf(kind)']_vars

\* C14: every entry of the peers, workloads and nodes stores is held under
\* a non-empty identifier, which is the identifier of no other entry of the
\* store.
C14_IdentifiersNonEmpty ==
  \A name \in {"peers", "workloads", "nodes"} :
     \A k \in DOMAIN StoreOf(name) : ~Falsy(k)

\* Peer records that use the primary paths, and the same records under the
\* secondary paths.
PrimaryPeers ==
  {[id |-> "abc", peer_id |-> Undef, name |-> n, display_name |-> Undef,
    reputation |-> r] : n \in {"Alice", Undef}, r \in {"0.9", Undef}}
SecondaryPeer(peer) ==
  [peer EXCEPT !.id = Undef, !.peer_id = peer.id,
               !.name = Undef, !.display_name = peer.name]

\* C15: a peer record with its values under peer_id and display_name yields
\* the canonical peer of the record with them under id and name, and a frame
\* with peer_id, peers or peer_info under data yields the peers store of the
\* frame with them at the top level.
C15_SecondaryPathEquivalent ==
  /\ \A peer \in PrimaryPeers :
        normalizePeer(SecondaryPeer(peer)) = normalizePeer(peer)
  /\ \A peer \in PrimaryPeers :
        /\ fetchPeersDone(Hook, <<SecondaryPeer(peer)>>).peers
             = fetchPeersDone(Hook, <<peer>>).peers
        /\ handleMessageP2P(Hook, PeersList(Some(<<SecondaryPeer(peer)>>),
                                            Absent)).peers
             = handleMessageP2P(Hook, PeersList(Some(<<peer>>), Absent)).peers
  /\ \A i \in 1..Len(FlatFrames) :
        handleMessageP2P(Hook, NestedFrame(FlatFrames[i])).peers
          = handleMessageP2P(Hook, FlatFrames[i]).peers

\* The peers store holds, after a frame, the peer of a record that named it
\* by peer_id and display_name only.
C15_Witness ==
  /\ hook = "p2p"
  /\ lastOp = "onmessage"
  /\ "abc" \in DOMAIN peers
  /\ peers["abc"] = normalizePeer(RawAlice)
  /\ peers["abc"].name = "Alice"

\* The frame is of a kind that requires an identifier and carries none.
LacksIdentifier(message) ==
  EventTarget(message)[1] # "none" /\ Falsy(EventTarget(message)[2])

\* C16: a frame of a kind that requires an identifier and carries none is
\* dropped: no store changes and nothing is thrown.
C16_FrameWithoutIdDropped ==
  [][\A s \in SockIds, i \in 1..Len(Frames) :
       (WsMessage(s, Frames[i]) /\ LacksIdentifier(Frames[i])) =>
          /\ peers' = peers /\ workloads' = workloads /\ nodes' = nodes
          /\ ~thrown']_vars

(* ------------------------ claims on the chat log ---------------------- *)
\* The newest LogKeep + 1 elements of a sequence, in its order.
MostRecent(seq) ==
  IF Len(seq) <= LogKeep + 1 THEN seq
  ELSE [i \in 1..(LogKeep + 1) |-> seq[Len(seq) - (LogKeep + 1) + i]]

\* The message a step appends to the log: <<m>>, or <<>> when the step
\* appends none.  A chat_message frame appends its data, or itself when it
\* has none; sendChat appends its echo when the socket is open and takes
\* the frame.
Appended ==
  IF hook # "p2p" THEN <<>>
  ELSE IF \E s \in SockIds : WsMessage(s, ChatNested) THEN <<ChatNested.data[1]>>
  ELSE IF \E s \in SockIds : WsMessage(s, ChatFlat) THEN <<ChatFlat>>
  ELSE IF /\ \E content \in Contents : SendChat(content)
          /\ readyState(Hook) = "OPEN"
          /\ ~thrown'
       THEN <<localEcho(Hook, CHOOSE content \in Contents : SendChat(content))>>
  ELSE <<>>

\* C17: the chat log never holds more than 100 messages, and every step
\* leaves in it the most recent (up to 100) of the messages appended so
\* far, in the order they were appended: the log after the step is the log
\* before it with the message of the step at its end, less its oldest
\* message when that makes 101.
C17_LogKeepsMostRecent ==
  /\ [](Len(messages) <= LogKeep + 1)
  /\ [][messages' = MostRecent(messages \o Appended)]_vars

\* The log is full and the echo of the message the consumer sent, older
\* than its 100 messages, has been dropped from it.
C17_Witness ==
  /\ hook = "p2p"
  /\ Len(messages) = LogKeep + 1
  /\ wsRef # 0
  /\ socks[wsRef].sent # <<>>
  /\ \A i \in 1..Len(messages) : ~messages[i].local

(* ------------------------ claims on the commands ---------------------- *)
\* C18: cancelWorkload(id) and retryWorkload(id) change the workload of the
\* store (status cancelled; status pending and progress 0) when they are
\* called, before their REST call resolves.
C18_OptimisticBeforeResolve ==
  [][\A id \in WorkloadIds :
       /\ (CommandStarts("cancel", id) /\ id \in DOMAIN workloads) =>
             workloads'[id].status = "cancelled"
       /\ (CommandStarts("retry", id) /\ id \in DOMAIN workloads) =>
             /\ workloads'[id].status = "pending"
             /\ workloads'[id].progress = 0]_vars

\* C19: when the REST call of createWorkload, cancelWorkload or
\* retryWorkload fails, the command rejects, the error field is non-null,
\* and the workloads store is as it was before the failure was handled.
C19_FailedCommandSurfaces ==
  [][\A i \in 1..MaxInflight :
       CommandSettles(i, FALSE) =>
          /\ commandRejected'
          /\ error' # Null
          /\ workloads' = workloads]_vars

\* A command has just failed while the store holds a workload.
C19_Witness ==
  /\ lastOp = "command"
  /\ commandRejected
  /\ error # Null
  /\ "w1" \in DOMAIN workloads

\* The body has neither of the shapes the fetch of kind expects.
NeitherShape(kind, data) ==
  data.shape # "array" /\ ~(data.shape = "object" /\ data.field = kind)

\* C20: a collection fetch that gets a non-success status, a network
\* failure or a body of neither expected shape reports an error and leaves
\* its store as it was.
C20_FailedFetchKeepsStore ==
  [][/\ \A list \in PeerLists :
          FetchPeersSettles(FALSE, list) => peers' = peers /\ error' # Null
     /\ \A b \in 1..MaxInflight, kind \in {"workloads", "nodes"}, ok \in BOOLEAN :
          \A data \in Bodies(kind) :
             (BatchFetchResponse(b, kind, ok, data)
                /\ (~ok \/ NeitherShape(kind, data))) =>
                  StoreOf(kind)' = StoreOf(kind) /\ error' # Null]_vars

(* ---------------------- claims on the connection ---------------------- *)
\* An unreachable server: the hook connects once, every socket fails before
\* it opens (its error event, then its close event with code 1006), every
\* REST call fails, and the caller calls none of connect(), disconnect()
\* and resetConnection() after the first connect().  A socket that is
\* connecting fails in the end, and a timer that is pending fires.
NextStorm ==
  \/ lastOp = "init" /\ Connect
  \/ \E i \in TimerIds : TimerFire(i)
  \/ \E s \in SockIds : WsError(s)
  \/ \E s \in SockIds : WsClose(s, AbnormalCode)
  \/ RefreshPeers
  \/ RefreshData
  \/ \E list \in PeerLists : FetchPeersSettles(FALSE, list)
  \/ \E b \in 1..MaxInflight, kind \in BatchKinds :
       BatchFetchSettles(b, kind, FALSE)

SpecStorm ==
  /\ Init
  /\ [][NextStorm]_vars
  /\ WF_vars(\E i \in TimerIds : TimerFire(i))
  /\ WF_vars(\E s \in SockIds : WsError(s))
  /\ WF_vars(\E s \in SockIds : WsClose(s, AbnormalCode))

\* The hook holds no socket and no timer is pending.
Quiescent == socks = <<>> /\ timers = <<>>

\* C21: against a server that cannot be reached, with no call of the caller
\* after the first connect(), the hook creates at most maxReconnectAttempts
\* sockets in all (those that have closed and those it holds), and in the
\* end it holds no socket and no timer is pending, for good.
C21_NoReconnectStorm ==
  /\ [](abnormalRun + Len(socks) <= MaxReconnectAttempts)
  /\ <>[]Quiescent

\* The budget is used up: maxReconnectAttempts sockets have failed, the last
\* timer has fired, and its connect() has created no socket.
C21_Witness ==
  /\ abnormalRun = MaxReconnectAttempts
  /\ reconnectAttemptsRef = MaxReconnectAttempts
  /\ lastOp = "timer"
  /\ Quiescent

\* The topics useOrchestrator subscribes to; useP2P has none.
Topics ==
  IF hook = "orch" THEN {"orchestrator", "workloads", "nodes", "cluster"}
  ELSE {}

\* C22: on the open event of a socket the hook sets connected, starts one
\* fetch for each collection it manages (useP2P: /api/info and /api/peers;
\* useOrchestrator: workloads, nodes and metrics, in one
\* fetchOrchestratorData call) and sends on that socket one subscribe frame
\* for each of its topics and nothing else.
C22_OpenHydratesAndSubscribes ==
  [][\A s \in SockIds :
       WsOpen(s) =>
          /\ connected'
          /\ Len(socks'[s].sent) = Cardinality(Topics)
          /\ \A topic \in Topics :
                \E i \in 1..Len(socks'[s].sent) :
                   socks'[s].sent[i] = "subscribe:" \o topic
          /\ hook = "p2p" =>
                /\ fetches' = [k \in DOMAIN fetches |-> fetches[k] + 1]
                /\ batches' = batches
          /\ hook = "orch" =>
                /\ fetches' = fetches
                /\ batches' = Append(batches, [k \in BatchKinds |-> "pending"])]_vars

\* A socket of useOrchestrator has just opened: the four subscribe frames
\* are on it and the three fetches are in flight.
C22_Witness ==
  /\ hook = "orch"
  /\ lastOp = "onopen"
  /\ connected
  /\ Len(socks[wsRef].sent) = 4
  /\ batches # <<>>

\* A step of the connection's life cycle: a call of connect(), disconnect()
\* or resetConnection(), a timer that fires, or an open, error or close
\* event of a socket.
LifecycleStep ==
  \/ Connect
  \/ Disconnect
  \/ ResetConnection
  \/ \E i \in TimerIds : TimerFire(i)
  \/ \E s \in SockIds : WsOpen(s)
  \/ \E s \in SockIds : WsError(s)
  \/ \E s \in SockIds, code \in CloseCodes : WsClose(s, code)

\* C23: a step of the connection's life cycle leaves the peers, workloads
\* and nodes stores and the chat log as they are.
C23_LifecycleKeepsStores ==
  [][LifecycleStep => UNCHANGED <<peers, workloads, nodes, messages>>]_vars

\* The socket has closed and the hook still holds the peers it had fetched
\* and the message it had sent.
C23_Witness ==
  /\ lastOp = "onclose"
  /\ ~connected
  /\ peers # EmptyMap
  /\ messages # <<>>

\* The connection with the history of resetConnection(), and a REST service
\* that answers at once and well.
InitReset == InitHook /\ recording = FALSE /\ resetRun = NoReset

NextReset ==
  \/ RestIdle /\ Connect
  \/ RestIdle /\ Disconnect
  \/ RestIdle /\ ResetConnection
  \/ \E i \in TimerIds : RestIdle /\ TimerFire(i)
  \/ \E s \in SockIds : RestIdle /\ WsOpen(s)
  \/ \E s \in SockIds : RestIdle /\ WsError(s)
  \/ \E s \in SockIds : RestIdle /\ WsClosing(s)
  \/ \E s \in SockIds, code \in CloseCodes : RestIdle /\ WsClose(s, code)
  \/ \E id \in InfoIds : FetchInfoSettles(TRUE, id)
  \/ \E list \in PeerLists : FetchPeersSettles(TRUE, list)
  \/ \E b \in 1..MaxInflight, kind \in BatchKinds :
       BatchFetchSettles(b, kind, TRUE)

SpecReset == InitReset /\ [][NextReset]_vars

\* C24: resetConnection() sets the reconnect counter to zero; unless the
\* caller calls connect() or disconnect() after it, its timer, when it
\* fires before any other connection was attempted, creates a socket (the
\* url being valid), and that is the only socket created after the reset
\* until a socket created since has delivered an event.
C24_ResetMakesOneAttempt ==
  /\ [][ResetConnection => reconnectAttemptsRef' = 0]_vars
  /\ [][\A i \in TimerIds :
          (TimerFire(i) /\ timers[i].kind = "reset" /\ resetRun[1] = 0
             /\ urlOk) => SocketCreated]_vars
  /\ [](resetRun[1] <= 1)

(* ------------------------ claims on the frames ------------------------ *)
\* C25: a frame that is not JSON, or whose type the hook does not know,
\* changes nothing of the hook's state (its stores, the chat log, the
\* cluster metrics, the connection state) and throws nothing; a frame that
\* arrives after it is handled as it would have been without it.
C25_BadFrameIsolated ==
  /\ [][\A s \in SockIds, i \in 1..Len(BadFrames) :
          WsMessage(s, BadFrames[i]) => UNCHANGED hookVars]_vars
  /\ [](\A i \in 1..Len(BadFrames), j \in 1..Len(Frames) :
          onmessage(onmessage(Hook, BadFrames[i]), Frames[j])
            = onmessage(Hook, Frames[j]))

\* A frame that is not JSON has just arrived at a hook that is connected
\* and holds a peer.
C25_Witness ==
  /\ lastOp = "onmessage:catch"
  /\ connected
  /\ peers # EmptyMap
  /\ ~thrown

(* -------------------- claims on the socket's events ------------------- *)
\* C26, as stated: an error event, when the counter is below
\* maxReconnectAttempts, raises the counter by one and schedules a
\* connect() after the backoff delay; the close event that follows the
\* error of the same socket counts nothing more.
C26_ErrorSchedulesReconnect ==
  [][\A s \in SockIds :
       /\ (WsError(s) /\ reconnectAttemptsRef < MaxReconnectAttempts) =>
             /\ reconnectAttemptsRef' = reconnectAttemptsRef + 1
             /\ TimerSet
       /\ (WsClose(s, AbnormalCode) /\ task = s) =>
             /\ reconnectAttemptsRef' = reconnectAttemptsRef
             /\ timers' = timers]_vars

\* C26, amended: an error event changes neither the reconnect counter nor
\* the timers; the close event of the same socket, which follows it, does,
\* once: when the counter is below maxReconnectAttempts it raises the
\* counter by one and schedules one connect() after the backoff delay.  An
\* error and the close that follows it count as one failed attempt.
C26_ErrorThenCloseCountsOnce ==
  [][\A s \in SockIds :
       /\ WsError(s) =>
             /\ reconnectAttemptsRef' = reconnectAttemptsRef
             /\ timers' = timers
             /\ reconnectTimerRef' = reconnectTimerRef
             /\ task' = s
       /\ (WsClose(s, AbnormalCode) /\ task = s
             /\ reconnectAttemptsRef < MaxReconnectAttempts) =>
             /\ reconnectAttemptsRef' = reconnectAttemptsRef + 1
             /\ Len(timers') = Len(timers) + 1
             /\ timers'[Len(timers')].delay =
                  ReconnectInterval * 2^(reconnectAttemptsRef' - 1)]_vars

\* The error event of the second socket to fail has run and its close
\* event has not: the counter still counts the first failure only.
C26_Witness ==
  /\ lastOp = "onerror"
  /\ task # 0
  /\ reconnectAttemptsRef = 1
  /\ timers = <<>>

\* Socket s is not the hook's current socket.
Stale(s) == s \in 1..Len(socks) /\ s # wsRef

\* C27: a close or error event of a socket that is no longer the hook's
\* current socket does not clear the reference to the current socket, does
\* not set connected to false while the current socket is open, does not
\* change the reconnect counter and schedules no reconnect.
C27_StaleEventsIgnored ==
  [][\A s \in SockIds :
       /\ (Stale(s) /\ WsError(s)) =>
             /\ wsRef' = wsRef
             /\ (connected /\ readyState(Hook) = "OPEN") => connected'
             /\ reconnectAttemptsRef' = reconnectAttemptsRef
             /\ timers' = timers
       /\ (Stale(s) /\ \E code \in CloseCodes : WsClose(s, code)) =>
             /\ wsRef' = Shift(wsRef, s)
             /\ (connected /\ readyState(Hook) = "OPEN") => connected'
             /\ reconnectAttemptsRef' = reconnectAttemptsRef
             /\ timers' = timers]_vars

(* ----------------------- claims on the fetches ------------------------ *)
\* The fetch of the given kind is the last of the fetchOrchestratorData()
\* call b to settle.
LastOfBatch(b, kind) ==
  /\ b \in 1..Len(batches)
  /\ \A k \in BatchKinds \ {kind} : batches[b][k] # "pending"

\* One of the fetches of the call b that have settled has failed.
FailedInBatch(b) ==
  b \in 1..Len(batches) /\ \E k \in BatchKinds : batches[b][k] = "fail"

\* C28: when one of the three fetches of fetchOrchestratorData() has failed,
\* then once all three have settled, in whatever order, the error field is
\* not null and loading is false.
C28_FailedBatchLeavesError ==
  [][\A b \in 1..MaxInflight, kind \in BatchKinds, ok \in BOOLEAN :
       (/\ LastOfBatch(b, kind)
        /\ ~ok \/ FailedInBatch(b)
        /\ \E data \in Bodies(kind) : BatchFetchResponse(b, kind, ok, data))
       => (error' # Null /\ ~loading')]_vars

(* ------------------- claims on the connected flag --------------------- *)
\* C29: in every reachable state, connected = true implies that the hook
\* holds a current socket and that this socket is open; in particular
\* connected is not true after disconnect() has returned.
C29_ConnectedMeansOpenSocket ==
  connected => (wsRef # 0 /\ readyState(Hook) = "OPEN")

(* ------------------ claims on overlapping snapshots ------------------- *)
\* fetchOrchestratorData() calls in flight at the same time, where two
\* snapshots of one collection overlap.
MaxRace == 2

\* The consumer calls refreshData() while a fetchOrchestratorData() is in
\* flight.
RefreshDataInFlight ==
  /\ task = 0
  /\ hook = "orch"
  /\ batches # <<>>
  /\ Len(batches) < MaxRace
  /\ Commit(fetchOrchestratorData(Hook))
  /\ lastOp' = "refreshData"
  /\ UNCHANGED <<resetRun, addedInFlight, hook, urlOk, recording, task,
                 afterDisconnect, schedRun, abnormalRun>>

\* The bodies of a service whose collections change between two requests.
RaceBodies(kind) ==
  CASE kind = "workloads" -> {ArrayBody(<<>>), ArrayBody(<<RawW1>>)}
    [] kind = "nodes" -> {ArrayBody(<<>>), ArrayBody(<<N1>>)}
    [] kind = "metrics" -> {"m1", "m2"}

\* Overlapping snapshots: one connection that stays up, its hydration, a
\* refresh issued while the hydration is in flight, and the responses in
\* any order.  The calls of fetchOrchestratorData() in flight are kept in
\* the order they were issued.
NextRace ==
  \/ Connect
  \/ \E s \in SockIds : WsOpen(s)
  \/ RefreshPeers
  \/ RefreshDataInFlight
  \/ \E ok \in BOOLEAN, id \in InfoIds : FetchInfoSettles(ok, id)
  \/ \E ok \in BOOLEAN, list \in PeerLists : FetchPeersSettles(ok, list)
  \/ \E b \in 1..MaxRace, kind \in BatchKinds, ok \in BOOLEAN :
       \E data \in RaceBodies(kind) : BatchFetchResponse(b, kind, ok, data)

SpecRace == InitSend /\ [][NextRace]_vars

\* The call c was issued after the call b, and its fetch of the given kind
\* has already succeeded.
LaterSettled(b, c, kind) ==
  b < c /\ c \in 1..Len(batches) /\ batches[c][kind] = "ok"

\* C30: when two snapshot fetches of one collection are in flight at once,
\* the store after both have settled reflects the fetch issued last, in
\* whatever order the responses arrive: the response of the fetch issued
\* last sets the store, and a response of the fetch issued first that
\* arrives after it leaves the store as it is.
C30_LatestIssuedFetchWins ==
  [][\A b \in 1..MaxRace :
       /\ \A data \in RaceBodies("workloads") :
            BatchFetchResponse(b, "workloads", TRUE, data) =>
               IF \E c \in 1..MaxRace : LaterSettled(b, c, "workloads")
               THEN workloads' = workloads
               ELSE workloads' =
                      setAll(EmptyMap, listOf(data, "workloads"), "id")
       /\ \A data \in RaceBodies("nodes") :
            BatchFetchResponse(b, "nodes", TRUE, data) =>
               IF \E c \in 1..MaxRace : LaterSettled(b, c, "nodes")
               THEN nodes' = nodes
               ELSE nodes' =
                      setAll(EmptyMap, listOf(data, "nodes"), "nodeId")
       /\ \A data \in RaceBodies("metrics") :
            BatchFetchResponse(b, "metrics", TRUE, data) =>
               IF \E c \in 1..MaxRace : LaterSettled(b, c, "metrics")
               THEN clusterMetrics' = clusterMetrics
               ELSE clusterMetrics' = data]_vars

====
